---- MODULE Spec2Model ----
(***************************************************************************)
(* Model of mdio.segy.geometry: the streamer geometry analysis, the        *)
(* trace auto-index and the grid override commands run by GridOverrider.   *)
(*                                                                         *)
(* A header set (index_headers) is a function from header names to         *)
(* sequences of integers, one entry per trace.  The request                *)
(* (grid_overrides) is a sequence of <<key, value>> pairs in the insertion *)
(* order of the Python dict.  An exception is modelled by the name of its  *)
(* class in `raised`; "" means that nothing was raised.                    *)
(***************************************************************************)
EXTENDS Integers, Sequences, FiniteSets

VARIABLES
    index_headers,  \* the caller's header dict, mutated in place by transforms
    index_names,    \* run's local: dimension names
    chunksize,      \* run's local: [is_none, dims], None being run's default
    grid_overrides, \* the request, a sequence of <<key, value>>
    override_idx,   \* position of run's loop in the request (1-based)
    pc,             \* "run", "analyze", "index" | "returned", "raised", "analyzed"
    raised,         \* class name of the exception that ended the call, or ""
    initial,        \* the arguments the call was made with
    geometry,       \* result of a direct analyze_streamer_headers call
    dtype           \* dtype argument of analyze_non_indexed_headers

vars == <<index_headers, index_names, chunksize, grid_overrides, override_idx,
          pc, raised, initial, geometry, dtype>>

-----------------------------------------------------------------------------
(* Bounds of the model.                                                    *)

MaxTraces == 3
MaxCable == 2
MaxChannel == 4
MaxChannelsPerCable == 2
MaxRequestLen == 3
MaxRunTraces == 1

-----------------------------------------------------------------------------
(* Generic helpers.                                                        *)

Range(s) == {s[i] : i \in 1..Len(s)}

SetMin(S) == CHOOSE m \in S : \A x \in S : m <= x

SetMax(S) == CHOOSE m \in S : \A x \in S : m >= x

RECURSIVE SortedSeq(_)
SortedSeq(S) ==
    IF S = {} THEN <<>>
    ELSE LET m == SetMin(S) IN <<m>> \o SortedSeq(S \ {m})

\* np.sort(np.unique(a))
SortedUnique(a) == SortedSeq(Range(a))

\* Keys of a Python dict held as a sequence of pairs, in insertion order.
Keys(d) == [i \in 1..Len(d) |-> d[i][1]]

KeySet(d) == {d[i][1] : i \in 1..Len(d)}

Get(d, k) == d[CHOOSE i \in 1..Len(d) : d[i][1] = k][2]

\* Insertion order of the header dict's keys.
KeyOrder == <<"shot_point", "cable", "channel", "trace">>

\* index_headers[k] = a
SetHeader(h, k, a) ==
    [x \in (DOMAIN h) \cup {k} |-> IF x = k THEN a ELSE h[x]]

\* Number of traces of a header set (all arrays are aligned).
NumTraces(h) ==
    IF DOMAIN h = {} THEN 0 ELSE Len(h[CHOOSE k \in DOMAIN h : TRUE])

-----------------------------------------------------------------------------
(* analyze_streamer_headers                                                *)

cable_channels(h, cable) ==
    {h["channel"][i] : i \in {j \in 1..Len(h["cable"]) : h["cable"][j] = cable}}

\* The pairwise scan: type B unless some pair of distinct cables overlaps.
geom_type_of(unique_cables, cable_chan_min, cable_chan_max) ==
    IF \E idx \in 1..Len(unique_cables), idx2 \in 1..Len(unique_cables) :
          /\ unique_cables[idx2] # unique_cables[idx]
          /\ cable_chan_min[idx2] < cable_chan_max[idx]
          /\ cable_chan_max[idx2] > cable_chan_min[idx]
    THEN "A" ELSE "B"

analyze_streamer_headers(h) ==
    LET unique_cables == SortedUnique(h["cable"])
        cable_chan_min == [idx \in 1..Len(unique_cables) |->
                              SetMin(cable_channels(h, unique_cables[idx]))]
        cable_chan_max == [idx \in 1..Len(unique_cables) |->
                              SetMax(cable_channels(h, unique_cables[idx]))]
    IN  [unique_cables |-> unique_cables,
         cable_chan_min |-> cable_chan_min,
         cable_chan_max |-> cable_chan_max,
         geom_type |-> geom_type_of(unique_cables, cable_chan_min, cable_chan_max)]

-----------------------------------------------------------------------------
(* Auto index: create_counter, create_trace_index,                         *)
(* analyze_non_indexed_headers                                             *)

DTypeBits(dt) == IF dt = "int8" THEN 8 ELSE 16

DTypeMax(dt) == 2 ^ (DTypeBits(dt) - 1) - 1

\* Value left in a cell of the given integer dtype by an out-of-range store
\* that numpy lets wrap around.
WrapStore(dt, v) ==
    ((v + 2 ^ (DTypeBits(dt) - 1)) % (2 ^ DTypeBits(dt))) - 2 ^ (DTypeBits(dt) - 1)

\* Nested mapping over the sorted unique values of each grouping header,
\* with 0 at the leaves.
RECURSIVE create_counter(_, _, _, _)
create_counter(depth, total_depth, unique_headers, header_names) ==
    IF depth = total_depth THEN 0
    ELSE [header \in Range(unique_headers[header_names[depth + 1]]) |->
             create_counter(depth + 1, total_depth, unique_headers, header_names)]

\* sub_counter[idx_values[-1]] += 1 after descending idx_values[:-1]
RECURSIVE IncrementLeaf(_, _)
IncrementLeaf(counter, idx_values) ==
    IF Len(idx_values) = 1
    THEN [counter EXCEPT ![idx_values[1]] = @ + 1]
    ELSE [counter EXCEPT ![idx_values[1]] = IncrementLeaf(@, Tail(idx_values))]

RECURSIVE LeafValue(_, _)
LeafValue(counter, idx_values) ==
    IF Len(idx_values) = 1
    THEN counter[idx_values[1]]
    ELSE LeafValue(counter[idx_values[1]], Tail(idx_values))

\* The loop of create_trace_index from trace idx on.  st = [counter, trace,
\* raised].  A count above the dtype's maximum either wraps around in the
\* store (wraps) or makes the store raise OverflowError, by numpy version.
RECURSIVE trace_index_loop(_, _, _, _, _, _, _)
trace_index_loop(idx, st, depth, h, header_names, dt, wraps) ==
    IF idx > Len(h[header_names[1]]) THEN st
    ELSE LET idx_values == [i \in 1..depth |-> h[header_names[i]][idx]]
             counter == IncrementLeaf(st.counter, idx_values)
             count == LeafValue(counter, idx_values)
         IN  IF count > DTypeMax(dt) /\ ~wraps
             THEN [st EXCEPT !.counter = counter, !.raised = "OverflowError"]
             ELSE trace_index_loop(
                      idx + 1,
                      [st EXCEPT !.counter = counter,
                                 !.trace[idx] = IF count > DTypeMax(dt)
                                                THEN WrapStore(dt, count)
                                                ELSE count],
                      depth, h, header_names, dt, wraps)

\* Returns [raised, headers].  np.empty leaves the new array uninitialised:
\* `garbage` is what its cells hold until the loop writes them.
create_trace_index(depth, counter, h, header_names, dt, garbage, wraps) ==
    IF header_names = <<>>
    THEN [raised |-> "IndexError", headers |-> h]
    ELSE LET empty == [i \in 1..Len(h[header_names[1]]) |-> garbage]
         IN  IF depth = 0
             THEN [raised |-> "", headers |-> SetHeader(h, "trace", empty)]
             ELSE LET st == trace_index_loop(
                                1, [counter |-> counter, trace |-> empty, raised |-> ""],
                                depth, h, header_names, dt, wraps)
                  IN  [raised |-> st.raised,
                       headers |-> SetHeader(h, "trace", st.trace)]

\* The grouping headers: every key but "trace", in the dict's order.
grouping_header_names(h) ==
    SelectSeq(KeyOrder, LAMBDA k : k \in DOMAIN h /\ k # "trace")

analyze_non_indexed_headers(h, dt, garbage, wraps) ==
    LET header_names == grouping_header_names(h)
        total_depth == Len(header_names)
        unique_headers == [k \in Range(header_names) |-> SortedUnique(h[k])]
        counter == create_counter(0, total_depth, unique_headers, header_names)
    IN  create_trace_index(total_depth, counter, h, header_names, dt, garbage, wraps)

-----------------------------------------------------------------------------
(* Grid override commands                                                  *)

RegisteredOverrides ==
    {"AutoChannelWrap", "CalculateCable", "ChannelWrap", "NonBinned", "HasDuplicates"}

StreamerKeys == {"shot_point", "cable", "channel"}

\* required_keys; DuplicateIndex and NonBinned declare None and skip the check.
has_required_keys(cmd) == cmd \notin {"HasDuplicates", "NonBinned"}

required_keys(cmd) == IF has_required_keys(cmd) THEN StreamerKeys ELSE {}

\* required_parameters, None standing for no parameter.
required_parameters(cmd) ==
    CASE cmd = "NonBinned" -> {"chunksize"}
      [] cmd \in {"ChannelWrap", "CalculateCable"} -> {"ChannelsPerCable"}
      [] OTHER -> {}

check_required_keys(cmd, h) ==
    IF required_keys(cmd) \subseteq DOMAIN h THEN "" ELSE "GridOverrideKeysError"

check_required_params(cmd, g) ==
    IF required_parameters(cmd) \subseteq KeySet(g)
    THEN "" ELSE "GridOverrideMissingParameterError"

\* The overrides a command's validate refuses to see in the request, in the
\* order it tests them.
incompatible_with(cmd) ==
    IF cmd \in {"HasDuplicates", "NonBinned", "AutoChannelWrap"}
    THEN {"ChannelWrap", "CalculateCable"}
    ELSE {"AutoChannelWrap"}

\* Mutant: the incompatibilities tested after the keys and parameters.
validate_incompatible_last(cmd, h, g) ==
    IF has_required_keys(cmd) /\ check_required_keys(cmd, h) # ""
    THEN check_required_keys(cmd, h)
    ELSE IF check_required_params(cmd, g) # ""
    THEN check_required_params(cmd, g)
    ELSE IF incompatible_with(cmd) \cap KeySet(g) # {}
    THEN "GridOverrideIncompatibleError"
    ELSE ""

\* Mutant: the parameters tested before the keys.
validate_params_first(cmd, h, g) ==
    IF incompatible_with(cmd) \cap KeySet(g) # {}
    THEN "GridOverrideIncompatibleError"
    ELSE IF check_required_params(cmd, g) # ""
    THEN check_required_params(cmd, g)
    ELSE IF has_required_keys(cmd)
    THEN check_required_keys(cmd, h)
    ELSE ""

\* validate of every command: incompatibilities, then keys, then parameters.
validate(cmd, h, g) ==
    IF incompatible_with(cmd) \cap KeySet(g) # {}
    THEN "GridOverrideIncompatibleError"
    ELSE IF has_required_keys(cmd) /\ check_required_keys(cmd, h) # ""
    THEN check_required_keys(cmd, h)
    ELSE check_required_params(cmd, g)

\* Mutant: channels rebased to start at 0.
RECURSIVE wrap_cables_from_zero(_, _, _, _)
wrap_cables_from_zero(idx, channel, cable, geom) ==
    IF idx > Len(geom.unique_cables) THEN channel
    ELSE wrap_cables_from_zero(
             idx + 1,
             [i \in 1..Len(channel) |->
                 IF cable[i] = geom.unique_cables[idx]
                 THEN channel[i] - geom.cable_chan_min[idx]
                 ELSE channel[i]],
             cable, geom)

\* The per-cable loop of AutoChannelWrap.transform, from unique cable idx on.
RECURSIVE wrap_cables(_, _, _, _)
wrap_cables(idx, channel, cable, geom) ==
    IF idx > Len(geom.unique_cables) THEN channel
    ELSE wrap_cables(
             idx + 1,
             [i \in 1..Len(channel) |->
                 IF cable[i] = geom.unique_cables[idx]
                 THEN channel[i] - geom.cable_chan_min[idx] + 1
                 ELSE channel[i]],
             cable, geom)

\* Mutant: the rewrite done for type A instead of type B.
AutoChannelWrap_mutate_type_A(h) ==
    LET geom == analyze_streamer_headers(h)
    IN  IF geom.geom_type = "A"
        THEN [h EXCEPT !["channel"] = wrap_cables(1, h["channel"], h["cable"], geom)]
        ELSE h

AutoChannelWrap_mutate(h) ==
    LET geom == analyze_streamer_headers(h)
    IN  IF geom.geom_type = "B"
        THEN [h EXCEPT !["channel"] = wrap_cables(1, h["channel"], h["cable"], geom)]
        ELSE h

ChannelWrap_mutate(h, channels_per_cable) ==
    [h EXCEPT !["channel"] =
        [i \in 1..Len(h["channel"]) |-> ((h["channel"][i] - 1) % channels_per_cable) + 1]]

\* Mutant: cables numbered from 0.
CalculateCable_mutate_from_zero(h, channels_per_cable) ==
    [h EXCEPT !["cable"] =
        [i \in 1..Len(h["channel"]) |-> (h["channel"][i] - 1) \div channels_per_cable]]

CalculateCable_mutate(h, channels_per_cable) ==
    [h EXCEPT !["cable"] =
        [i \in 1..Len(h["channel"]) |-> ((h["channel"][i] - 1) \div channels_per_cable) + 1]]

\* Mutant: DuplicateIndex and NonBinned index the traces before validating.
transform_before_validate(cmd, h, g, garbage, wraps) ==
    IF validate(cmd, h, g) # ""
    THEN [raised |-> validate(cmd, h, g),
          headers |-> IF cmd \in {"HasDuplicates", "NonBinned"}
                         /\ (DOMAIN h) \ {"trace"} # {}
                      THEN analyze_non_indexed_headers(h, "int16", garbage, wraps).headers
                      ELSE h]
    ELSE CASE cmd = "AutoChannelWrap" ->
                [raised |-> "", headers |-> AutoChannelWrap_mutate(h)]
           [] cmd = "ChannelWrap" ->
                [raised |-> "",
                 headers |-> ChannelWrap_mutate(h, Get(g, "ChannelsPerCable"))]
           [] cmd = "CalculateCable" ->
                [raised |-> "",
                 headers |-> CalculateCable_mutate(h, Get(g, "ChannelsPerCable"))]
           [] OTHER ->
                analyze_non_indexed_headers(h, "int16", garbage, wraps)

\* transform of the command registered under cmd: validate, then mutate.
\* Returns [raised, headers]; headers is what the caller's dict then holds.
transform(cmd, h, g, garbage, wraps) ==
    IF validate(cmd, h, g) # ""
    THEN [raised |-> validate(cmd, h, g), headers |-> h]
    ELSE CASE cmd = "AutoChannelWrap" ->
                [raised |-> "", headers |-> AutoChannelWrap_mutate(h)]
           [] cmd = "ChannelWrap" ->
                [raised |-> "",
                 headers |-> ChannelWrap_mutate(h, Get(g, "ChannelsPerCable"))]
           [] cmd = "CalculateCable" ->
                [raised |-> "",
                 headers |-> CalculateCable_mutate(h, Get(g, "ChannelsPerCable"))]
           [] OTHER ->
                analyze_non_indexed_headers(h, "int16", garbage, wraps)

transform_index_names(cmd, names) ==
    IF cmd \in {"HasDuplicates", "NonBinned"} THEN Append(names, "trace") ELSE names

\* Mutant: the size appended after the last entry.
InsertAfterLast(dims, x) == Append(dims, x)

\* list.insert(-1, x): before the last entry, or into an empty list.
InsertBeforeLast(dims, x) ==
    IF dims = <<>> THEN <<x>>
    ELSE SubSeq(dims, 1, Len(dims) - 1) \o <<x, dims[Len(dims)]>>

\* Returns [raised, chunksize]; list(None) raises TypeError.
transform_chunksize(cmd, chunks, g) ==
    IF cmd \notin {"HasDuplicates", "NonBinned"}
    THEN [raised |-> "", chunksize |-> chunks]
    ELSE IF chunks.is_none
    THEN [raised |-> "TypeError", chunksize |-> chunks]
    ELSE [raised |-> "",
          chunksize |-> [chunks EXCEPT !.dims =
              InsertBeforeLast(@, IF cmd = "NonBinned" THEN Get(g, "chunksize") ELSE 1)]]

-----------------------------------------------------------------------------
(* GridOverrider                                                           *)

\* Mutant: the parameters of one command kept instead of the union.
get_allowed_parameters_of_one == required_parameters("NonBinned")

\* self.parameters: the union of the commands' required parameters.
get_allowed_parameters == UNION {required_parameters(cmd) : cmd \in RegisteredOverrides}

\* Contents np.empty may hand out.
Garbage == {0, -1}

CurrentOverride == grid_overrides[override_idx][1]

InLoop == pc = "run" /\ override_idx <= Len(grid_overrides)

\* `if override in self.parameters: continue`
RunSkipParameter ==
    /\ InLoop
    /\ CurrentOverride \in get_allowed_parameters
    /\ override_idx' = override_idx + 1
    /\ UNCHANGED <<index_headers, index_names, chunksize, grid_overrides, pc,
                   raised, initial, geometry, dtype>>

\* `if override not in self.commands: raise GridOverrideUnknownError`
RunUnknown ==
    /\ InLoop
    /\ CurrentOverride \notin get_allowed_parameters
    /\ CurrentOverride \notin RegisteredOverrides
    /\ pc' = "raised"
    /\ raised' = "GridOverrideUnknownError"
    /\ UNCHANGED <<index_headers, index_names, chunksize, grid_overrides,
                   override_idx, initial, geometry, dtype>>

\* One pass of run's loop body for a registered command: transform, then
\* transform_index_names, then transform_chunksize.  A raise leaves the
\* caller's dict as the transform left it and ends the call.
Dispatch(cmd, garbage, wraps) ==
    /\ LET t == transform(cmd, index_headers, grid_overrides, garbage, wraps)
           c == transform_chunksize(cmd, chunksize, grid_overrides)
       IN  /\ index_headers' = t.headers
           /\ IF t.raised # ""
              THEN /\ pc' = "raised"
                   /\ raised' = t.raised
                   /\ UNCHANGED <<index_names, chunksize, override_idx>>
              ELSE /\ index_names' = transform_index_names(cmd, index_names)
                   /\ IF c.raised # ""
                      THEN /\ pc' = "raised"
                           /\ raised' = c.raised
                           /\ UNCHANGED <<chunksize, override_idx>>
                      ELSE /\ chunksize' = c.chunksize
                           /\ override_idx' = override_idx + 1
                           /\ UNCHANGED <<pc, raised>>
    /\ UNCHANGED <<grid_overrides, initial, geometry, dtype>>

RunAutoChannelWrap ==
    /\ InLoop
    /\ CurrentOverride = "AutoChannelWrap"
    /\ Dispatch("AutoChannelWrap", 0, TRUE)

RunChannelWrap ==
    /\ InLoop
    /\ CurrentOverride = "ChannelWrap"
    /\ Dispatch("ChannelWrap", 0, TRUE)

RunCalculateCable ==
    /\ InLoop
    /\ CurrentOverride = "CalculateCable"
    /\ Dispatch("CalculateCable", 0, TRUE)

RunHasDuplicates ==
    /\ InLoop
    /\ CurrentOverride = "HasDuplicates"
    /\ \E garbage \in Garbage, wraps \in BOOLEAN :
          Dispatch("HasDuplicates", garbage, wraps)

RunNonBinned ==
    /\ InLoop
    /\ CurrentOverride = "NonBinned"
    /\ \E garbage \in Garbage, wraps \in BOOLEAN :
          Dispatch("NonBinned", garbage, wraps)

\* `return index_headers, index_names, chunksize`
RunReturn ==
    /\ pc = "run"
    /\ override_idx > Len(grid_overrides)
    /\ pc' = "returned"
    /\ UNCHANGED <<index_headers, index_names, chunksize, grid_overrides,
                   override_idx, raised, initial, geometry, dtype>>

\* A direct call of analyze_streamer_headers on the header set.
AnalyzeStreamerHeaders ==
    /\ pc = "analyze"
    /\ geometry' = analyze_streamer_headers(index_headers)
    /\ pc' = "analyzed"
    /\ UNCHANGED <<index_headers, index_names, chunksize, grid_overrides,
                   override_idx, raised, initial, dtype>>

\* A direct call of analyze_non_indexed_headers(index_headers, dtype).
AnalyzeNonIndexedHeaders ==
    /\ pc = "index"
    /\ \E garbage \in Garbage, wraps \in BOOLEAN :
          LET r == analyze_non_indexed_headers(index_headers, dtype, garbage, wraps)
          IN  /\ index_headers' = r.headers
              /\ raised' = r.raised
              /\ pc' = IF r.raised = "" THEN "returned" ELSE "raised"
    /\ UNCHANGED <<index_names, chunksize, grid_overrides, override_idx,
                   initial, geometry, dtype>>

-----------------------------------------------------------------------------
(* Inputs                                                                  *)

NoGeometry ==
    [unique_cables |-> <<>>, cable_chan_min |-> <<>>, cable_chan_max |-> <<>>,
     geom_type |-> ""]

NoChunksize == [is_none |-> TRUE, dims |-> <<>>]

\* Header sets over the given keys with n traces: one shot, cables
\* 1..ncable, channels 1..nchannel, a "trace" column of ones.
HeaderSets(keys, n, ncable, nchannel) ==
    {[k \in keys |-> CASE k = "cable" -> cable
                       [] k = "channel" -> channel
                       [] OTHER -> [i \in 1..n |-> 1]] :
        cable \in IF "cable" \in keys THEN [1..n -> 1..ncable] ELSE {<<>>},
        channel \in IF "channel" \in keys THEN [1..n -> 1..nchannel] ELSE {<<>>}}

\* The request as the dict's items: a flag for an override, a number for a
\* parameter.
Items(keys, channels_per_cable, chunk) ==
    [i \in 1..Len(keys) |->
        <<keys[i], CASE keys[i] = "ChannelsPerCable" -> channels_per_cable
                     [] keys[i] = "chunksize" -> chunk
                     [] OTHER -> 1>>]

OverrideKeys == RegisteredOverrides \cup {"ChannelsPerCable", "chunksize", "Unknown"}

\* Sequences of distinct keys (a dict holds a key once).
KeySeqs(keys, maxlen) ==
    {ks \in UNION {[1..n -> keys] : n \in 0..maxlen} :
        \A i, j \in 1..Len(ks) : i # j => ks[i] # ks[j]}

\* Values of the chunksize parameter of NonBinned.
ChunkParameters == {2, 4}

\* The values a request with these keys can give its parameters.
ChannelsPerCableValues(ks) ==
    IF "ChannelsPerCable" \in Range(ks) THEN 1..MaxChannelsPerCable ELSE {1}

ChunkParameterValues(ks) ==
    IF "chunksize" \in Range(ks) THEN ChunkParameters ELSE {1}

\* The start of a call on header set h.
Start(h, names, chunks, g, at, dt) ==
    /\ index_headers = h
    /\ index_names = names
    /\ chunksize = chunks
    /\ grid_overrides = g
    /\ override_idx = 1
    /\ pc = at
    /\ raised = ""
    /\ initial = [headers |-> h, names |-> names, chunksize |-> chunks]
    /\ geometry = NoGeometry
    /\ dtype = dt

RunKeySets ==
    {{}, {"shot_point", "channel"}, StreamerKeys, StreamerKeys \cup {"trace"}}

RunChunkShapes ==
    {NoChunksize, [is_none |-> FALSE, dims |-> <<8>>],
     [is_none |-> FALSE, dims |-> <<16, 8>>]}

\* GridOverrider.run on small header sets with every request of up to
\* MaxRequestLen keys.
\* Header sets of up to MaxRunTraces traces of one cable, channels 1 and 2.
RunHeaderSets ==
    UNION {HeaderSets(keys, n, 1, 2) : keys \in RunKeySets, n \in 0..MaxRunTraces}

Init ==
    \E ks \in KeySeqs(OverrideKeys, MaxRequestLen), h \in RunHeaderSets,
       chunks \in RunChunkShapes :
    \E p \in ChannelsPerCableValues(ks), c \in ChunkParameterValues(ks) :
        Start(h, grouping_header_names(h), chunks, Items(ks, p, c), "run", "int16")

Next ==
    \/ RunSkipParameter
    \/ RunUnknown
    \/ RunAutoChannelWrap
    \/ RunChannelWrap
    \/ RunCalculateCable
    \/ RunHasDuplicates
    \/ RunNonBinned
    \/ RunReturn

Spec == Init /\ [][Next]_vars

\* The header set of the documented AutoChannelWrap example.
ExampleHeaders ==
    [k \in StreamerKeys |-> CASE k = "cable" -> <<1, 1, 2, 2>>
                              [] k = "channel" -> <<5, 6, 25, 26>>
                              [] OTHER -> <<1, 1, 1, 1>>]

\* Every layout of n traces within the bounds; with MaxTraces + 1 for n,
\* the documented example.
StreamerHeaderSets(n) ==
    IF n > MaxTraces THEN {ExampleHeaders}
    ELSE HeaderSets(StreamerKeys, n, MaxCable, MaxChannel)

\* Every trace's channel lies in the block of P absolute channels of its
\* cable: channels numbered through, not wrapped.
Unwrapped(h, P) ==
    \A i \in 1..Len(h["cable"]) :
        h["channel"][i] \in ((h["cable"][i] - 1) * P + 1)..(h["cable"][i] * P)

\* ChannelWrap and CalculateCable alone or in either order.
ChannelsPerCableRequests ==
    {<<"ChannelWrap", "ChannelsPerCable">>,
     <<"CalculateCable", "ChannelsPerCable">>,
     <<"ChannelWrap", "CalculateCable", "ChannelsPerCable">>,
     <<"CalculateCable", "ChannelWrap", "ChannelsPerCable">>}

\* analyze_streamer_headers called directly and GridOverrider.run with
\* AutoChannelWrap on every cable/channel layout within the bounds; run with
\* ChannelWrap and CalculateCable on the layouts with unwrapped channels.
InitGeometry ==
    \E n \in 0..(MaxTraces + 1) :
    \E h \in StreamerHeaderSets(n) :
        \/ Start(h, grouping_header_names(h), NoChunksize, <<>>, "analyze", "int16")
        \/ Start(h, grouping_header_names(h), NoChunksize,
                 Items(<<"AutoChannelWrap">>, 1, 1), "run", "int16")
        \/ \E p \in 1..MaxChannelsPerCable, ks \in ChannelsPerCableRequests :
              /\ Unwrapped(h, p)
              /\ Start(h, grouping_header_names(h), NoChunksize,
                       Items(ks, p, 1), "run", "int16")

NextGeometry ==
    \/ AnalyzeStreamerHeaders
    \/ RunSkipParameter
    \/ RunAutoChannelWrap
    \/ RunChannelWrap
    \/ RunCalculateCable
    \/ RunReturn

SpecGeometry == InitGeometry /\ [][NextGeometry]_vars

IndexKeySets ==
    {{}, {"trace"}, {"cable"}, {"cable", "channel"}, StreamerKeys,
     StreamerKeys \cup {"trace"}}

\* One group of as many traces as the dtype's maximum, and one more.
LongGroup(dt) == [k \in {"cable"} |-> [i \in 1..(DTypeMax(dt) + 1) |-> 1]]

\* analyze_non_indexed_headers called directly: with the default dtype on
\* every header set within the bounds, and with int8 also on one long group.
InitIndex ==
    \/ \E keys \in IndexKeySets, n \in 0..MaxTraces, dt \in {"int8", "int16"} :
       \E h \in HeaderSets(keys, n, MaxCable, MaxChannel) :
           Start(h, grouping_header_names(h), NoChunksize, <<>>, "index", dt)
    \/ Start(LongGroup("int8"), <<"cable">>, NoChunksize, <<>>, "index", "int8")

NextIndex == AnalyzeNonIndexedHeaders

SpecIndex == InitIndex /\ [][NextIndex]_vars

-----------------------------------------------------------------------------
(* Vocabulary of the properties, stated on the call's arguments (initial)  *)
(* and on the request, not through the operators above.                    *)

RequestKeys == KeySet(grid_overrides)

\* The call is over: it returned or raised.
CallEnded == pc \in {"returned", "raised"}

\* Lowest and highest channel carried by a cable in header set h.
ChannelLow(h, c) ==
    SetMin({h["channel"][i] : i \in {j \in 1..Len(h["cable"]) : h["cable"][j] = c}})

ChannelHigh(h, c) ==
    SetMax({h["channel"][i] : i \in {j \in 1..Len(h["cable"]) : h["cable"][j] = c}})

\* The closed channel intervals of two cables have a channel in common.
IntervalsOverlap(h, c1, c2) ==
    /\ ChannelLow(h, c1) <= ChannelHigh(h, c2)
    /\ ChannelLow(h, c2) <= ChannelHigh(h, c1)

SomeCablesOverlap(h) ==
    \E c1 \in Range(h["cable"]), c2 \in Range(h["cable"]) :
        c1 # c2 /\ IntervalsOverlap(h, c1, c2)

\* The run was made with exactly this sequence of request keys and returned.
Returned(keys) == pc = "returned" /\ Keys(grid_overrides) = keys

\* C1: the engine run with only AutoChannelWrap on shot_point present,
\* cable=[1,1,2,2], channel=[5,6,25,26] returns channel=[5,6,1,2].
C1_Original ==
    (initial.headers = ExampleHeaders /\ Returned(<<"AutoChannelWrap">>))
        => index_headers["channel"] = <<5, 6, 1, 2>>

\* C1 (amended): that run returns channel=[1,2,1,2]: cable 1's channels are
\* rebased on its own minimum 5 like cable 2's on 25; cable and shot_point
\* come back as given.
C1_Amended ==
    (initial.headers = ExampleHeaders /\ Returned(<<"AutoChannelWrap">>))
        => /\ index_headers["channel"] = <<1, 2, 1, 2>>
           /\ index_headers["cable"] = <<1, 1, 2, 2>>
           /\ index_headers["shot_point"] = <<1, 1, 1, 1>>

C1_Witness ==
    /\ initial.headers = ExampleHeaders
    /\ Returned(<<"AutoChannelWrap">>)
    /\ analyze_streamer_headers(initial.headers).geom_type = "B"

\* C2: analyze_streamer_headers returns type B when the per-cable channel
\* intervals [min, max] are pairwise disjoint and type A when some pair of
\* distinct cables overlaps, intervals sharing only an endpoint included.
C2_Claim ==
    pc = "analyzed"
        => geometry.geom_type =
               IF SomeCablesOverlap(initial.headers) THEN "A" ELSE "B"

\* Traces j <= i of header set h with the same grouping-header values as i.
GroupUpTo(h, i) ==
    {j \in 1..i : \A k \in (DOMAIN h) \ {"trace"} : h[k][j] = h[k][i]}

\* C3: for a header set with at least one grouping header,
\* analyze_non_indexed_headers writes a trace array of length N in which
\* each group's ordinals, in file order, are 1, 2, ..., k, whatever k is.
C3_Claim ==
    (pc \in {"returned", "raised"} /\ (DOMAIN initial.headers) \ {"trace"} # {})
        => /\ raised = ""
           /\ "trace" \in DOMAIN index_headers
           /\ Len(index_headers["trace"]) = NumTraces(initial.headers)
           /\ \A i \in 1..NumTraces(initial.headers) :
                 index_headers["trace"][i] =
                     Cardinality(GroupUpTo(initial.headers, i))

\* Cable c carries exactly the absolute channels (c-1)*P+1 .. c*P.
ContiguousUnwrapped(h, P) ==
    \A c \in Range(h["cable"]) :
        {h["channel"][i] : i \in {j \in 1..Len(h["cable"]) : h["cable"][j] = c}}
            = ((c - 1) * P + 1)..(c * P)

ContiguousRun(keys) ==
    /\ Returned(keys)
    /\ ContiguousUnwrapped(initial.headers, Get(grid_overrides, "ChannelsPerCable"))

\* C4: on contiguous, unwrapped channels the run of ChannelWrap, then
\* CalculateCable, with ChannelsPerCable=P returns every trace's original
\* cable.
C4_Original ==
    ContiguousRun(<<"ChannelWrap", "CalculateCable", "ChannelsPerCable">>)
        => index_headers["cable"] = initial.headers["cable"]

\* C4 (amended): on such headers the run of CalculateCable, then ChannelWrap
\* returns every trace's original cable; the run of ChannelWrap, then
\* CalculateCable returns cable 1 for every trace.
C4_Amended ==
    /\ ContiguousRun(<<"CalculateCable", "ChannelWrap", "ChannelsPerCable">>)
        => index_headers["cable"] = initial.headers["cable"]
    /\ ContiguousRun(<<"ChannelWrap", "CalculateCable", "ChannelsPerCable">>)
        => \A i \in 1..Len(index_headers["cable"]) : index_headers["cable"][i] = 1

C4_Witness ==
    /\ ContiguousRun(<<"CalculateCable", "ChannelWrap", "ChannelsPerCable">>)
    /\ Get(grid_overrides, "ChannelsPerCable") = 2
    /\ 2 \in Range(initial.headers["cable"])
    /\ index_headers["channel"] # initial.headers["channel"]

\* C5: on a header set the analyzer classifies as type B, AutoChannelWrap
\* leaves each trace with its channel minus its cable's lowest channel plus
\* 1, so every cable's lowest channel is 1; cable and shot_point keep their
\* values.
C5_TypeB ==
    (Returned(<<"AutoChannelWrap">>)
        /\ analyze_streamer_headers(initial.headers).geom_type = "B")
        => /\ \A i \in 1..NumTraces(initial.headers) :
                 index_headers["channel"][i] =
                     initial.headers["channel"][i]
                         - ChannelLow(initial.headers, initial.headers["cable"][i]) + 1
           /\ \A c \in Range(index_headers["cable"]) : ChannelLow(index_headers, c) = 1
           /\ index_headers["cable"] = initial.headers["cable"]
           /\ index_headers["shot_point"] = initial.headers["shot_point"]
           /\ DOMAIN index_headers = DOMAIN initial.headers

C5_Witness ==
    /\ Returned(<<"AutoChannelWrap">>)
    /\ analyze_streamer_headers(initial.headers).geom_type = "B"
    /\ Cardinality(Range(initial.headers["cable"])) = 2
    /\ \A i \in 1..NumTraces(initial.headers) :
          index_headers["channel"][i] # initial.headers["channel"][i]

-----------------------------------------------------------------------------
(* Properties of GridOverrider.run                                         *)

ValidationErrors ==
    {"GridOverrideIncompatibleError", "GridOverrideKeysError",
     "GridOverrideMissingParameterError"}

\* The loop has dispatched the request's p-th key: it went past it, or it
\* raised there.
Dispatched(p) == override_idx > p \/ (pc = "raised" /\ override_idx = p)

\* What a command that passes its validation does to the headers.
DocumentedEffect(cmd, h) ==
    CASE cmd = "AutoChannelWrap" -> AutoChannelWrap_mutate(h)
      [] cmd = "ChannelWrap" ->
            ChannelWrap_mutate(h, Get(grid_overrides, "ChannelsPerCable"))
      [] cmd = "CalculateCable" ->
            CalculateCable_mutate(h, Get(grid_overrides, "ChannelsPerCable"))
      [] OTHER -> analyze_non_indexed_headers(h, "int16", 0, TRUE).headers

\* The call's header set after the commands among the request's first p
\* keys, applied in request order.
RECURSIVE AfterFirst(_)
AfterFirst(p) ==
    IF p = 0 THEN initial.headers
    ELSE IF grid_overrides[p][1] \in RegisteredOverrides
    THEN DocumentedEffect(grid_overrides[p][1], AfterFirst(p - 1))
    ELSE AfterFirst(p - 1)

\* A name that is neither a registered override nor a known parameter.
UnknownNames ==
    RequestKeys \ {"HasDuplicates", "NonBinned", "AutoChannelWrap", "ChannelWrap",
                   "CalculateCable", "chunksize", "ChannelsPerCable"}

\* C6: a request with both ChannelWrap and AutoChannelWrap, in either order,
\* and otherwise only registered names and parameters, fails with
\* IncompatibleOverrides, whatever prerequisites are also unmet, and no
\* header value is modified.
C6_MutualExclusion ==
    ({"ChannelWrap", "AutoChannelWrap"} \subseteq RequestKeys /\ UnknownNames = {})
        => /\ pc # "returned"
           /\ pc = "raised" => raised = "GridOverrideIncompatibleError"
           /\ index_headers = initial.headers

C6_Witness ==
    /\ pc = "raised"
    /\ {"ChannelWrap", "AutoChannelWrap"} \subseteq RequestKeys
    /\ grid_overrides[override_idx][1] = "AutoChannelWrap"
    /\ \E p \in 1..Len(grid_overrides) :
          p > override_idx /\ grid_overrides[p][1] = "ChannelWrap"
    /\ "cable" \notin DOMAIN initial.headers
    /\ "ChannelsPerCable" \notin RequestKeys

\* C7: a request with an unknown name fails with UnknownOverride, wherever
\* the name stands and whatever the other entries are.
C7_Original ==
    (UnknownNames # {} /\ CallEnded)
        => pc = "raised" /\ raised = "GridOverrideUnknownError"

\* C7 (amended): a request with an unknown name never returns; the error is
\* UnknownOverride when the loop reaches the unknown name, which it does
\* when no command before it in request order raises, and is otherwise the
\* error of the first command that raises.
C7_Amended ==
    UnknownNames # {}
        => /\ pc # "returned"
           /\ pc = "raised" =>
                 IF grid_overrides[override_idx][1] \in UnknownNames
                 THEN raised = "GridOverrideUnknownError"
                 ELSE /\ raised \notin {"", "GridOverrideUnknownError"}
                      /\ \E p \in 1..Len(grid_overrides) :
                            p > override_idx /\ grid_overrides[p][1] \in UnknownNames

C7_Witness ==
    /\ pc = "raised"
    /\ raised = "GridOverrideUnknownError"
    /\ override_idx = 3
    /\ index_headers # initial.headers

\* C8: when the j-th command fails its validation, run raises with the
\* header set equal to the input after exactly the commands before it, in
\* request order: the failing command changes nothing and the earlier
\* effects stay.
C8_NonAtomic ==
    (pc = "raised" /\ raised \in ValidationErrors)
        => index_headers = AfterFirst(override_idx - 1)

C8_Witness ==
    /\ pc = "raised"
    /\ raised \in ValidationErrors
    /\ "channel" \in DOMAIN initial.headers
    /\ index_headers["channel"] # initial.headers["channel"]

\* The overrides the design's table lists as incompatible with a command.
TableIncompatible(cmd) ==
    CASE cmd \in {"ChannelWrap", "CalculateCable"} -> {"AutoChannelWrap"}
      [] OTHER -> {"ChannelWrap", "CalculateCable"}

TableRequiredKeys(cmd) ==
    CASE cmd \in {"AutoChannelWrap", "ChannelWrap", "CalculateCable"} ->
            {"shot_point", "cable", "channel"}
      [] OTHER -> {}

TableRequiredParameters(cmd) ==
    CASE cmd \in {"ChannelWrap", "CalculateCable"} -> {"ChannelsPerCable"}
      [] cmd = "NonBinned" -> {"chunksize"}
      [] OTHER -> {}

MissesKeys(cmd) == ~(TableRequiredKeys(cmd) \subseteq DOMAIN initial.headers)

MissesParameters(cmd) == ~(TableRequiredParameters(cmd) \subseteq RequestKeys)

RaisedAt(p, error) ==
    /\ pc = "raised"
    /\ override_idx = p
    /\ raised = error
    /\ index_headers = AfterFirst(p - 1)

\* C9: a dispatched command whose required keys are not all in the header
\* set fails with MissingKeys, one whose required parameters are not all in
\* the request fails with MissingParameter, before modifying any header.
C9_Original ==
    \A p \in 1..Len(grid_overrides) :
        (Dispatched(p) /\ grid_overrides[p][1] \in RegisteredOverrides)
            => /\ MissesKeys(grid_overrides[p][1])
                  => RaisedAt(p, "GridOverrideKeysError")
               /\ MissesParameters(grid_overrides[p][1])
                  => RaisedAt(p, "GridOverrideMissingParameterError")

\* C9 (amended): when no override incompatible with the command is in the
\* request, a dispatched command whose required keys are not all in the
\* header set fails with MissingKeys, and one whose required keys are
\* present but whose required parameters are not all in the request fails
\* with MissingParameter, before modifying any header.
C9_Amended ==
    \A p \in 1..Len(grid_overrides) :
        (Dispatched(p) /\ grid_overrides[p][1] \in RegisteredOverrides
            /\ TableIncompatible(grid_overrides[p][1]) \cap RequestKeys = {})
            => /\ MissesKeys(grid_overrides[p][1])
                  => RaisedAt(p, "GridOverrideKeysError")
               /\ (~MissesKeys(grid_overrides[p][1])
                      /\ MissesParameters(grid_overrides[p][1]))
                  => RaisedAt(p, "GridOverrideMissingParameterError")

C9_Witness ==
    /\ pc = "raised"
    /\ grid_overrides[override_idx][1] = "ChannelWrap"
    /\ MissesKeys("ChannelWrap")
    /\ MissesParameters("ChannelWrap")
    /\ raised = "GridOverrideKeysError"

\* The chunk sizes the HasDuplicates and NonBinned commands among the
\* request's first p keys insert, in request order.
RECURSIVE InsertedSizes(_)
InsertedSizes(p) ==
    IF p = 0 THEN <<>>
    ELSE InsertedSizes(p - 1) \o
             (CASE grid_overrides[p][1] = "HasDuplicates" -> <<1>>
                [] grid_overrides[p][1] = "NonBinned" ->
                      <<Get(grid_overrides, "chunksize")>>
                [] OTHER -> <<>>)

\* C10: each applied HasDuplicates or NonBinned appends "trace" to the
\* dimension names and inserts its chunk size (1, or the chunksize
\* parameter) just before the last entry of the chunk shape; the other
\* commands change neither.  So both sequences have grown by the number of
\* such commands applied and the chunk shape's last entry is the original.
C10_Dimensions ==
    pc \in {"run", "returned"}
        => LET sizes == InsertedSizes(override_idx - 1)
               dims == initial.chunksize.dims
           IN  /\ index_names = initial.names \o [i \in 1..Len(sizes) |-> "trace"]
               /\ sizes = <<>> => chunksize = initial.chunksize
               /\ sizes # <<>> =>
                     /\ ~chunksize.is_none
                     /\ chunksize.dims =
                            SubSeq(dims, 1, Len(dims) - 1) \o sizes
                                \o <<dims[Len(dims)]>>

C10_Witness ==
    /\ pc = "returned"
    /\ Len(InsertedSizes(override_idx - 1)) = 2
    /\ InsertedSizes(override_idx - 1)[1] # InsertedSizes(override_idx - 1)[2]
    /\ Len(initial.chunksize.dims) = 2

====
